---- MODULE Spec2Model ----
(***************************************************************************)
(* taskflow: a DAG scheduler (core/workflow.py) running tasks with a       *)
(* per-task retry loop (core/task.py).                                     *)
(*                                                                         *)
(* Three specifications share the state:                                   *)
(*   Spec      a caller validates (toposort / validate_acyclic) and runs   *)
(*             a Workflow over a bounded family of dependency graphs;      *)
(*   SpecRerun the same caller runs the Workflow again and again on the    *)
(*             same Task objects, over a smaller family of graphs;         *)
(*   SpecTask  a caller awaits Task.execute() of one task directly, over   *)
(*             a range of retry policies.                                  *)
(***************************************************************************)
EXTENDS Integers, Sequences, FiniteSets, TLC

\* ---------------------------------------------------------------- bounds

\* The declared tasks, in the order add_task inserted them into self.tasks.
TaskNames == <<"A", "B", "C", "D">>

\* A prerequisite name that no add_task call declared.
Undeclared == "Z"

\* Largest number of dependency edges of a graph under Spec.
MaxEdges == 4

\* Largest max_retries of the task under SpecTask.
MaxRetries == 4

\* Largest retry_backoff_seconds of the task under SpecTask.
MaxBackoff == 2

\* max_retries of every task of a Workflow under Spec.
RunRetries == 2

\* Largest number of dependency edges of a graph under SpecRerun.
RerunEdges == 2

\* The run() calls on one Workflow are counted up to this many.
MaxRuns == 2

\* ------------------------------------------------------------- constants

\* retry_backoff_seconds default of Task.__init__.
DefaultBackoff == 1

Names == {TaskNames[i] : i \in 1..Len(TaskNames)}

Refs == Names \cup {Undeclared}

TaskStatus == {"PENDING", "RUNNING", "SUCCEEDED", "FAILED", "SKIPPED"}

\* -------------------------------------------------------------- helpers

EmptyMap == [x \in {} |-> x]

Put(f, k, v) == [x \in DOMAIN f \cup {k} |-> IF x = k THEN v ELSE f[x]]

RECURSIVE Orderings(_)
\* Every order in which a Python set can be iterated.
Orderings(S) ==
    IF S = {} THEN {<<>>}
    ELSE UNION {{<<x>> \o o : o \in Orderings(S \ {x})} : x \in S}

RECURSIVE SumTo(_)
SumTo(k) == IF k <= 0 THEN 0 ELSE k + SumTo(k - 1)

RECURSIVE SeqSum(_)
SeqSum(s) == IF s = <<>> THEN 0 ELSE Head(s) + SeqSum(Tail(s))

\* ------------------------------------------------------------ TaskResult

NoError == [kind |-> "None", attempt |-> 0]

\* traceback.format_exc() of the exception raised by the n-th body call.
Traceback(n) == [kind |-> "traceback", attempt |-> n]

Reason(text) == [kind |-> text, attempt |-> 0]

PrereqFailed == "SKIPPED: prerequisite failed"

Unrunnable == "SKIPPED: unrunnable after failure or unresolved deps"

\* TaskResult(ok=ok): the dataclass defaults.
TaskResult(ok) ==
    [ok |-> ok, output |-> "None", error |-> NoError, finished |-> FALSE, retries |-> 0]

\* ----------------------------------------------------------------- state

VARIABLES
    tasks,                  \* Workflow.tasks: the declared names, insertion order
    deps,                   \* Workflow.deps: name -> set of prerequisite names
    max_retries,            \* Task.max_retries, per task
    retry_backoff_seconds,  \* Task.retry_backoff_seconds, per task
    status,                 \* Task.status, per task
    ex,                     \* per task: the execute() coroutine
    rpc,                    \* position of the caller / of Workflow.run
    remaining_deps,         \* run(): remaining_deps
    has_failed_parent,      \* run(): has_failed_parent
    results,                \* run(): results
    running,                \* run(): keys of running
    ready,                  \* run(): ready
    done,                   \* run(): futures of this wake-up not yet processed
    raised,                 \* the ValueError that left run()/toposort(), if any
    ret,                    \* value returned by the last toposort()/validate_acyclic()
    saved,                  \* what write_run was given
    runs                    \* run() calls on the Workflow so far, up to MaxRuns

vars == <<tasks, deps, max_retries, retry_backoff_seconds, status, ex, rpc,
          remaining_deps, has_failed_parent, results, running, ready, done,
          raised, ret, saved, runs>>

defn == <<tasks, deps, max_retries, retry_backoff_seconds>>

locals == <<remaining_deps, has_failed_parent, results, running, ready, done>>

NoValue == [kind |-> "none"]

\* No coroutine object exists for the task.
NoCoroutine ==
    [pc |-> "none", attempt |-> 0, result |-> TaskResult(FALSE), calls |-> 0, waits |-> <<>>]

\* The coroutine object task.execute(**inputs), not yet started.
NewCoroutine == [NoCoroutine EXCEPT !.pc = "created"]

\* ------------------------------------------------- Task.execute (task.py)

\* Faulty variant: the backoff scaled by attempt - 1.
BackoffFromZero(rbs, attempt) == rbs * (attempt - 1)

\* The linear backoff before the next attempt.
Backoff(rbs, attempt) == rbs * attempt

\* Faulty variant: the retries are exhausted only when attempt equals max_retries.
RetriesExhaustedExactly(attempt, mr) == attempt = mr

\* Faulty variant: one attempt more than allowed.
RetriesExceeded(attempt, mr) == attempt > mr

\* Whether the attempt that just failed was the last one allowed.
RetriesExhausted(attempt, mr) == attempt >= mr

\* Faulty variant: execute() starts without writing the status.
ExecuteBeginKeepsStatus(c) ==
    [co |-> [c EXCEPT !.pc = "body", !.attempt = 0, !.result = TaskResult(FALSE),
                      !.calls = 1, !.waits = <<>>],
     status |-> "PENDING"]

\* execute() up to its first call of the body: attempt = 0, a fresh
\* TaskResult(ok=False), status RUNNING.
ExecuteBegin(c) ==
    [co |-> [c EXCEPT !.pc = "body", !.attempt = 0, !.result = TaskResult(FALSE),
                      !.calls = 1, !.waits = <<>>],
     status |-> "RUNNING"]

\* The try branch after the body returned.
BodyReturned(c) ==
    [co |-> [c EXCEPT !.pc = "returned",
                      !.result = [@ EXCEPT !.ok = TRUE, !.output = "output",
                                           !.finished = TRUE]],
     status |-> "SUCCEEDED"]

\* Faulty variant: the last attempt's exception is re-raised instead of recorded.
BodyRaisedEscapes(c, st, mr, rbs) ==
    LET attempt == c.attempt + 1
        counted == [c.result EXCEPT !.retries = attempt]
    IN  IF attempt >= mr
        THEN [co |-> [c EXCEPT !.pc = "raised", !.attempt = attempt,
                               !.result = counted],
              status |-> st]
        ELSE [co |-> [c EXCEPT !.pc = "sleep", !.attempt = attempt,
                               !.result = counted,
                               !.waits = Append(@, rbs * attempt)],
              status |-> st]

\* Faulty variant: result.retries is written only when another attempt follows.
BodyRaisedCountsRetriesOnly(c, st, mr, rbs) ==
    LET attempt == c.attempt + 1
        counted == [c.result EXCEPT !.retries = attempt]
        tb      == Traceback(c.calls)
    IN  IF attempt >= mr
        THEN [co |-> [c EXCEPT !.pc = "returned", !.attempt = attempt,
                               !.result = [@ EXCEPT !.error = tb, !.finished = TRUE]],
              status |-> "FAILED"]
        ELSE [co |-> [c EXCEPT !.pc = "sleep", !.attempt = attempt,
                               !.result = counted,
                               !.waits = Append(@, rbs * attempt)],
              status |-> st]

\* Faulty variant: result.error is written on every failed attempt.
BodyRaisedKeepsError(c, st, mr, rbs) ==
    LET attempt == c.attempt + 1
        tb      == Traceback(c.calls)
        counted == [c.result EXCEPT !.retries = attempt, !.error = tb]
    IN  IF attempt >= mr
        THEN [co |-> [c EXCEPT !.pc = "returned", !.attempt = attempt,
                               !.result = [counted EXCEPT !.finished = TRUE]],
              status |-> "FAILED"]
        ELSE [co |-> [c EXCEPT !.pc = "sleep", !.attempt = attempt,
                               !.result = counted,
                               !.waits = Append(@, rbs * attempt)],
              status |-> st]

\* The except branch after the body raised an Exception; st is the status
\* the task has now.
BodyRaised(c, st, mr, rbs) ==
    LET attempt == c.attempt + 1
        counted == [c.result EXCEPT !.retries = attempt]
        tb      == Traceback(c.calls)
    IN  IF RetriesExhausted(attempt, mr)
        THEN [co |-> [c EXCEPT !.pc = "returned", !.attempt = attempt,
                               !.result = [counted EXCEPT !.error = tb,
                                                          !.finished = TRUE]],
              status |-> "FAILED"]
        ELSE [co |-> [c EXCEPT !.pc = "sleep", !.attempt = attempt,
                               !.result = counted,
                               !.waits = Append(@, Backoff(rbs, attempt))],
              status |-> st]

\* asyncio.sleep(backoff) is over: the while loop calls the body again.
SleepOver(c) == [c EXCEPT !.pc = "body", !.calls = @ + 1]

\* The event loop runs coroutines only while the caller is suspended: in
\* run()'s asyncio.wait, or in a caller's own await of execute().
Suspended == rpc \in {"wait", "direct"}

ExecStart(t) ==
    /\ Suspended
    /\ ex[t].pc = "created"
    /\ LET r == ExecuteBegin(ex[t])
       IN  /\ ex' = [ex EXCEPT ![t] = r.co]
           /\ status' = [status EXCEPT ![t] = r.status]
    /\ UNCHANGED <<defn, runs, rpc, locals, raised, ret, saved>>

ExecBodyReturns(t) ==
    /\ Suspended
    /\ ex[t].pc = "body"
    /\ LET r == BodyReturned(ex[t])
       IN  /\ ex' = [ex EXCEPT ![t] = r.co]
           /\ status' = [status EXCEPT ![t] = r.status]
    /\ UNCHANGED <<defn, runs, rpc, locals, raised, ret, saved>>

ExecBodyRaises(t) ==
    /\ Suspended
    /\ ex[t].pc = "body"
    /\ LET r == BodyRaised(ex[t], status[t], max_retries[t], retry_backoff_seconds[t])
       IN  /\ ex' = [ex EXCEPT ![t] = r.co]
           /\ status' = [status EXCEPT ![t] = r.status]
    /\ UNCHANGED <<defn, runs, rpc, locals, raised, ret, saved>>

ExecSleepEnds(t) ==
    /\ Suspended
    /\ ex[t].pc = "sleep"
    /\ ex' = [ex EXCEPT ![t] = SleepOver(@)]
    /\ UNCHANGED <<defn, runs, status, rpc, locals, raised, ret, saved>>

\* ------------------------------------------------ Workflow (workflow.py)

\* children: parent -> set(children that depend on parent), as toposort()
\* and run() build it once the references are known to be valid.
children == [p \in Names |-> {t \in Names : p \in deps[t]}]

\* Faulty variant: the error reports one missing pair only.
MissingPairsFirst(d) ==
    LET all == {e \in (DOMAIN d) \X Refs : e[2] \in d[e[1]] /\ e[2] \notin Names}
    IN  IF all = {} THEN {} ELSE {CHOOSE e \in all : TRUE}

\* _validate_all_deps_exist: the (task, prerequisite) pairs whose
\* prerequisite is not a declared task; the ValueError lists them all.
MissingPairs(d) ==
    {e \in (DOMAIN d) \X Refs : e[2] \in d[e[1]] /\ e[2] \notin Names}

UnknownDependency(d) == [kind |-> "unknown_dependency", missing |-> MissingPairs(d)]

\* ---- toposort (Kahn's algorithm)

\* A child whose in-degree just dropped to deg joins the ready deque.
BecameReady(deg) == deg = 0

RECURSIVE VisitChildren(_, _)
\* "for child in children[node]", in the iteration order ord: k is
\* [in_degree, ready, order].
VisitChildren(k, ord) ==
    IF ord = <<>> THEN k
    ELSE LET child == Head(ord)
             deg   == k.in_degree[child] - 1
             k1    == [k EXCEPT !.in_degree[child] = deg,
                                !.ready = IF BecameReady(deg) THEN Append(@, child) ELSE @]
         IN  VisitChildren(k1, Tail(ord))

RECURSIVE Kahn(_)
\* "while ready": every final [in_degree, ready, order] the loop can end in.
Kahn(k) ==
    IF k.ready = <<>> THEN {k}
    ELSE LET node == Head(k.ready)
             k1   == [k EXCEPT !.ready = Tail(@), !.order = Append(@, node)]
         IN  UNION {Kahn(VisitChildren(k1, ord)) : ord \in Orderings(children[node])}

\* Faulty variant: the deque starts with the tasks of in-degree at most 1.
KahnStartEarly ==
    LET in_degree == [n \in Names |-> Cardinality(deps[n])]
    IN  [in_degree |-> in_degree,
         ready     |-> SelectSeq(tasks, LAMBDA n : in_degree[n] <= 1),
         order     |-> <<>>]

\* The states toposort() starts its loop from: in-degree = number of
\* prerequisites, ready = the tasks of in-degree 0 in insertion order.
KahnStart ==
    LET in_degree == [n \in Names |-> Cardinality(deps[n])]
    IN  [in_degree |-> in_degree,
         ready     |-> SelectSeq(tasks, LAMBDA n : in_degree[n] = 0),
         order     |-> <<>>]

\* Faulty variant: the stuck nodes are taken from the declared prerequisite counts.
KahnOutcomeDeclared(k) ==
    IF Len(k.order) # Len(tasks)
    THEN [kind |-> "cycle", stuck |-> SelectSeq(tasks, LAMBDA n : deps[n] # {})]
    ELSE [kind |-> "order", order |-> k.order]

\* What a finished loop makes of toposort(): the order, or the cycle error
\* naming the nodes whose in-degree is still positive.
KahnOutcome(k) ==
    IF Len(k.order) # Len(tasks)
    THEN [kind |-> "cycle", stuck |-> SelectSeq(tasks, LAMBDA n : k.in_degree[n] > 0)]
    ELSE [kind |-> "order", order |-> k.order]

\* Every outcome of toposort() on the workflow.
toposort ==
    IF MissingPairs(deps) # {} THEN {UnknownDependency(deps)}
    ELSE {KahnOutcome(k) : k \in Kahn(KahnStart)}

\* validate_acyclic: True after a toposort() that did not raise.
validate_acyclic == {IF o.kind = "order" THEN [kind |-> "True"] ELSE o : o \in toposort}

\* A caller's toposort() call.
Toposort ==
    /\ rpc = "idle"
    /\ \E o \in toposort :
          IF o.kind = "order"
          THEN ret' = o /\ raised' = NoValue
          ELSE ret' = NoValue /\ raised' = o
    /\ UNCHANGED <<defn, runs, status, ex, rpc, locals, saved>>

\* A caller's validate_acyclic() call.
ValidateAcyclic ==
    /\ rpc = "idle"
    /\ \E o \in validate_acyclic :
          IF o.kind = "True"
          THEN ret' = o /\ raised' = NoValue
          ELSE ret' = NoValue /\ raised' = o
    /\ UNCHANGED <<defn, runs, status, ex, rpc, locals, saved>>

\* ---- run

\* The part of run()'s state that mark_skipped and the loops over children
\* read and write.
RunState ==
    [status |-> status, results |-> results, remaining_deps |-> remaining_deps,
     has_failed_parent |-> has_failed_parent, ready |-> ready]

\* The TaskResult mark_skipped synthesizes.
SkipResult(reason) ==
    [TaskResult(FALSE) EXCEPT !.error = Reason(reason), !.finished = TRUE]

\* Faulty variant: a child counts as unblocked whatever is left to wait for.
UnblockedAlways(remaining) == TRUE

\* Faulty variant: a child counts as unblocked with one prerequisite left.
UnblockedEarly(remaining) == Cardinality(remaining) <= 1

\* "if not remaining_deps[ch]": every prerequisite of the child is resolved.
Unblocked(remaining) == remaining = {}

\* Faulty variant: a failed parent leaves the flag as it was.
FailedParentKept(flag, res) == flag

\* Faulty variant: any finished parent sets the flag.
FailedParentAlways(flag, res) == TRUE

\* Faulty variant: the flag is overwritten by the parent that finished last.
FailedParentLast(flag, res) == ~res.ok

\* has_failed_parent[ch] after a parent finished with result res.
FailedParentAfter(flag, res) == IF ~res.ok THEN TRUE ELSE flag

\* Faulty variant: every task starts in the ready set.
InitialReadyAll(remaining) == DOMAIN remaining

\* Initial ready set: tasks with no prereqs.
InitialReady(remaining) == {t \in DOMAIN remaining : remaining[t] = {}}

RECURSIVE mark_skipped(_, _, _)
RECURSIVE SkipChildren(_, _, _, _)
\* Faulty variant: mark_skipped without "self.tasks[task_name].status = SKIPPED".
mark_skipped_no_status(st, task_name, reason) ==
    IF task_name \in DOMAIN st.results THEN {st}
    ELSE LET st1 == [st EXCEPT !.results = Put(@, task_name, SkipResult(reason))]
         IN  UNION {SkipChildren(st1, task_name, ord, reason) :
                        ord \in Orderings(children[task_name])}

\* Faulty variant: the status is written before the "already resolved" test.
mark_skipped_status_first(st, task_name, reason) ==
    LET st0 == [st EXCEPT !.status[task_name] = "SKIPPED"]
    IN  IF task_name \in DOMAIN st.results THEN {st0}
        ELSE LET st1 == [st0 EXCEPT !.results = Put(@, task_name, SkipResult(reason))]
             IN  UNION {SkipChildren(st1, task_name, ord, reason) :
                            ord \in Orderings(children[task_name])}

\* mark_skipped(task_name, reason) started in state st: every state it can
\* end in (the children are a set, iterated in any order).
mark_skipped(st, task_name, reason) ==
    IF task_name \in DOMAIN st.results THEN {st}
    ELSE LET st1 == [st EXCEPT !.status[task_name] = "SKIPPED",
                               !.results = Put(@, task_name, SkipResult(reason))]
         IN  UNION {SkipChildren(st1, task_name, ord, reason) :
                        ord \in Orderings(children[task_name])}

\* mark_skipped's "for ch in children[task_name]", in the order ord.
SkipChildren(st, task_name, ord, reason) ==
    IF ord = <<>> THEN {st}
    ELSE LET ch    == Head(ord)
             st1   == [st EXCEPT !.has_failed_parent[ch] = TRUE,
                                 !.remaining_deps[ch] = @ \ {task_name}]
             after == IF Unblocked(st1.remaining_deps[ch])
                      THEN mark_skipped(st1, ch, reason)
                      ELSE {st1}
         IN  UNION {SkipChildren(s, task_name, Tail(ord), reason) : s \in after}

RECURSIVE UpdateDependents(_, _, _, _, _)
\* The main loop's "for ch in children[name]" after the result res of name
\* was stored, in the order ord; inflight is running after "del running[name]".
UpdateDependents(st, name, res, inflight, ord) ==
    IF ord = <<>> THEN {st}
    ELSE LET ch    == Head(ord)
             st1   == [st EXCEPT !.remaining_deps[ch] = @ \ {name},
                                 !.has_failed_parent[ch] = FailedParentAfter(@, res)]
             after == IF Unblocked(st1.remaining_deps[ch])
                      THEN IF st1.has_failed_parent[ch]
                           THEN mark_skipped(st1, ch, PrereqFailed)
                           ELSE IF ch \notin DOMAIN st1.results /\ ch \notin inflight
                                THEN {[st1 EXCEPT !.ready = @ \cup {ch}]}
                                ELSE {st1}
                      ELSE {st1}
         IN  UNION {UpdateDependents(s, name, res, inflight, Tail(ord)) : s \in after}

\* Faulty variant: run() returns without the post-loop sweep.
SweepNothing(st, todo) == {st}

RECURSIVE Sweep(_, _)
\* The post-loop "for t in self.tasks: if t not in results: mark_skipped".
Sweep(st, todo) ==
    IF todo = <<>> THEN {st}
    ELSE LET t     == Head(todo)
             after == IF t \notin DOMAIN st.results
                      THEN mark_skipped(st, t, Unrunnable)
                      ELSE {st}
         IN  UNION {Sweep(s, Tail(todo)) : s \in after}

\* storage/repository.py write_run: the fields of each result it persists.
write_run(res) ==
    [name \in DOMAIN res |->
        [ok |-> res[name].ok, error |-> res[name].error,
         retries |-> res[name].retries, finished |-> res[name].finished]]

\* Writes a RunState back to the variables.
Becomes(st) ==
    /\ status' = st.status
    /\ results' = st.results
    /\ remaining_deps' = st.remaining_deps
    /\ has_failed_parent' = st.has_failed_parent

\* run() from its call to the first "while ready or running" test.
EnterRun ==
    /\ runs' = IF runs < MaxRuns THEN runs + 1 ELSE runs
    /\ ret' = NoValue
    /\ IF MissingPairs(deps) # {}
       THEN /\ raised' = UnknownDependency(deps)
            /\ rpc' = "error"
            /\ UNCHANGED <<defn, status, ex, locals, saved>>
       ELSE /\ remaining_deps' = deps
            /\ has_failed_parent' = [t \in Names |-> FALSE]
            /\ results' = EmptyMap
            /\ running' = {}
            /\ ready' = InitialReady(deps)
            /\ done' = {}
            /\ rpc' = "loop"
            /\ raised' = NoValue
            /\ ex' = [t \in Names |-> NoCoroutine]
            /\ saved' = NoValue
            /\ UNCHANGED <<defn, status>>

\* The caller's first run() on the Workflow.
RunStart ==
    /\ rpc = "idle"
    /\ EnterRun

\* The caller calls run() again after a run that returned: the same Task
\* objects, with the statuses that run left.
RunAgain ==
    /\ rpc = "done"
    /\ ret.kind = "results"
    /\ EnterRun

\* One iteration of "for name in list(ready)".
LaunchOne(name) ==
    /\ rpc = "loop"
    /\ name \in ready
    /\ IF has_failed_parent[name]
       THEN /\ \E st \in mark_skipped(RunState, name, PrereqFailed) : Becomes(st)
            /\ UNCHANGED <<running, ex>>
       ELSE IF name \notin DOMAIN results /\ name \notin running
            THEN /\ running' = running \cup {name}
                 /\ ex' = [ex EXCEPT ![name] = NewCoroutine]
                 /\ UNCHANGED <<status, results, remaining_deps, has_failed_parent>>
            ELSE UNCHANGED <<running, ex, status, results, remaining_deps,
                             has_failed_parent>>
    /\ ready' = ready \ {name}
    /\ UNCHANGED <<defn, runs, rpc, done, raised, ret, saved>>

\* Faulty variant: run() waits as soon as one task is in flight.
AwaitAfterFirstLaunch ==
    /\ rpc = "loop"
    /\ running # {}
    /\ rpc' = "wait"
    /\ UNCHANGED <<defn, runs, status, ex, locals, raised, ret, saved>>

\* Everything ready was launched and something is in flight: run() suspends
\* in asyncio.wait(..., return_when=FIRST_COMPLETED).
AwaitFirstCompleted ==
    /\ rpc = "loop"
    /\ ready = {}
    /\ running # {}
    /\ rpc' = "wait"
    /\ UNCHANGED <<defn, runs, status, ex, locals, raised, ret, saved>>

\* asyncio.wait returns: done holds every future finished by now.
Wake ==
    /\ rpc = "wait"
    /\ \E t \in running : ex[t].pc \in {"returned", "raised"}
    /\ done' = {t \in running : ex[t].pc \in {"returned", "raised"}}
    /\ rpc' = "process"
    /\ UNCHANGED <<defn, runs, status, ex, remaining_deps, has_failed_parent, results,
                   running, ready, raised, ret, saved>>

\* One iteration of "for fut in done".
ProcessOne(name) ==
    /\ rpc = "process"
    /\ name \in done
    /\ running' = running \ {name}
    /\ done' = done \ {name}
    /\ IF ex[name].pc = "raised"
       THEN \* "await fut" re-raises what execute() raised
            /\ raised' = [kind |-> "task_exception", task |-> name]
            /\ rpc' = "error"
            /\ UNCHANGED <<status, results, remaining_deps, has_failed_parent, ready>>
       ELSE /\ LET res == ex[name].result
                   st0 == [RunState EXCEPT !.results = Put(@, name, res)]
               IN  \E ord \in Orderings(children[name]) :
                   \E st \in UpdateDependents(st0, name, res, running', ord) :
                       Becomes(st) /\ ready' = st.ready
            /\ rpc' = IF done' = {} THEN "loop" ELSE "process"
            /\ UNCHANGED raised
    /\ UNCHANGED <<defn, runs, ex, ret, saved>>

\* The loop is left (not ready and not running, or the break): the sweep
\* over the unresolved tasks, write_run, return results.
Finish ==
    /\ rpc = "loop"
    /\ ready = {}
    /\ running = {}
    /\ \E st \in Sweep(RunState, tasks) :
          /\ Becomes(st)
          /\ saved' = [kind |-> "run", tasks |-> write_run(st.results)]
          /\ ret' = [kind |-> "results", value |-> st.results]
    /\ rpc' = "done"
    /\ UNCHANGED <<defn, runs, ex, running, ready, done, raised>>

\* ---- the dependency graphs of Spec

AllEdges == Names \X Refs

RECURSIVE EdgeSets(_)
\* The sets of at most n (task, prerequisite) edges.
EdgeSets(n) ==
    IF n = 0 THEN {{}}
    ELSE LET fewer == EdgeSets(n - 1)
         IN  fewer \cup {es \cup {e} : es \in fewer, e \in AllEdges}

\* add_task(task, depends_on) for every task, with these edges.
DepsOf(es) == [t \in Names |-> {p \in Refs : <<t, p>> \in es}]

Init ==
    /\ tasks = TaskNames
    /\ deps \in {DepsOf(es) : es \in EdgeSets(MaxEdges)}
    /\ max_retries = [t \in Names |-> RunRetries]
    /\ retry_backoff_seconds = [t \in Names |-> DefaultBackoff]
    /\ status = [t \in Names |-> "PENDING"]
    /\ ex = [t \in Names |-> NoCoroutine]
    /\ rpc = "idle"
    /\ remaining_deps = [t \in Names |-> {}]
    /\ has_failed_parent = [t \in Names |-> FALSE]
    /\ results = EmptyMap
    /\ running = {}
    /\ ready = {}
    /\ done = {}
    /\ raised = NoValue
    /\ ret = NoValue
    /\ saved = NoValue
    /\ runs = 0

Next ==
    \/ Toposort
    \/ ValidateAcyclic
    \/ RunStart
    \/ AwaitFirstCompleted
    \/ Wake
    \/ Finish
    \/ \E t \in Names :
        \/ LaunchOne(t)
        \/ ProcessOne(t)
        \/ ExecStart(t)
        \/ ExecBodyReturns(t)
        \/ ExecBodyRaises(t)
        \/ ExecSleepEnds(t)

Spec == Init /\ [][Next]_vars

\* --------------------------- SpecRerun: the Workflow is run more than once

InitRerun ==
    /\ tasks = TaskNames
    /\ deps \in {DepsOf(es) : es \in EdgeSets(RerunEdges)}
    /\ max_retries = [t \in Names |-> RunRetries]
    /\ retry_backoff_seconds = [t \in Names |-> DefaultBackoff]
    /\ status = [t \in Names |-> "PENDING"]
    /\ ex = [t \in Names |-> NoCoroutine]
    /\ rpc = "idle"
    /\ remaining_deps = [t \in Names |-> {}]
    /\ has_failed_parent = [t \in Names |-> FALSE]
    /\ results = EmptyMap
    /\ running = {}
    /\ ready = {}
    /\ done = {}
    /\ raised = NoValue
    /\ ret = NoValue
    /\ saved = NoValue
    /\ runs = 0

NextRerun ==
    \/ Next
    \/ RunAgain

SpecRerun == InitRerun /\ [][NextRerun]_vars

\* ------------------------------------- SpecTask: one task, awaited directly

InitTask ==
    /\ tasks = <<"A">>
    /\ deps = [t \in {"A"} |-> {}]
    /\ max_retries \in [{"A"} -> 0..MaxRetries]
    /\ retry_backoff_seconds \in [{"A"} -> 0..MaxBackoff]
    /\ status = [t \in {"A"} |-> "PENDING"]
    /\ ex = [t \in {"A"} |-> NewCoroutine]
    /\ rpc = "direct"
    /\ remaining_deps = [t \in {"A"} |-> {}]
    /\ has_failed_parent = [t \in {"A"} |-> FALSE]
    /\ results = EmptyMap
    /\ running = {}
    /\ ready = {}
    /\ done = {}
    /\ raised = NoValue
    /\ ret = NoValue
    /\ saved = NoValue
    /\ runs = 0

\* The caller's "await task.execute(**kwargs)" gets the returned TaskResult.
ExecAwaited(t) ==
    /\ rpc = "direct"
    /\ ex[t].pc = "returned"
    /\ rpc' = "done"
    /\ ret' = [kind |-> "result", value |-> ex[t].result]
    /\ UNCHANGED <<defn, runs, status, ex, locals, raised, saved>>

NextTask ==
    \E t \in {"A"} :
        \/ ExecStart(t)
        \/ ExecBodyReturns(t)
        \/ ExecBodyRaises(t)
        \/ ExecSleepEnds(t)
        \/ ExecAwaited(t)

SpecTask == InitTask /\ [][NextTask]_vars

\* ================================================================ claims

\* ---- vocabulary of the claims

ValidRefs == \A t \in DOMAIN deps : deps[t] \subseteq Names

RECURSIVE Closure(_)
Closure(S) ==
    LET more == S \cup UNION {deps[x] \cap Names : x \in S \cap DOMAIN deps}
    IN  IF more = S THEN S ELSE Closure(more)

\* The direct and transitive prerequisites of t.
Ancestors(t) == Closure(deps[t] \cap Names)

HasCycle == \E t \in DOMAIN deps : t \in Ancestors(t)

Acyclic == ValidRefs /\ ~HasCycle

Terminal == {"SUCCEEDED", "FAILED", "SKIPPED"}

\* The graph A -> (B, C) -> D of api/main.py.
Diamond ==
    deps = [t \in Names |->
               IF t = "A" THEN {}
               ELSE IF t = "D" THEN {"B", "C"}
               ELSE {"A"}]

Returned == rpc = "done" /\ ret.kind = "results"

\* ---- C1
\* C1: when run returns on an acyclic graph with valid references, the
\* returned map has exactly the declared task names as keys and every
\* task's status is SUCCEEDED, FAILED or SKIPPED.
C1_OneResultPerTask ==
    (rpc = "done" /\ Acyclic) =>
        /\ ret.kind = "results"
        /\ DOMAIN ret.value = Names
        /\ ret.value = results
        /\ \A t \in Names : status[t] \in Terminal

C1_Witness ==
    /\ Returned
    /\ Acyclic
    /\ \E a, b, c \in Names :
          status[a] = "SUCCEEDED" /\ status[b] = "FAILED" /\ status[c] = "SKIPPED"

\* ---- C2
\* C2: a task that has been launched (it is in running, or its execute
\* coroutine exists) has a stored result for every declared prerequisite.
C2_LaunchedAfterPrereqs ==
    \A t \in DOMAIN deps :
        (t \in running \/ ex[t].pc # "none") => deps[t] \subseteq DOMAIN results

C2_Witness ==
    /\ Diamond
    /\ "D" \in running
    /\ ex["D"].pc = "created"
    /\ {"B", "C"} \subseteq DOMAIN results

\* ---- C3
\* C3: on an acyclic graph, once X has a result with ok=false, no task Y
\* with X among its direct or transitive prerequisites is ever launched or
\* has its body called, and when run returns Y's result has ok=false and
\* Y's status is SKIPPED.
C3_FailureSkipsDescendants ==
    Acyclic =>
        \A x \in DOMAIN results : \A y \in Names :
            (~results[x].ok /\ x \in Ancestors(y)) =>
                /\ y \notin running
                /\ ex[y].pc = "none"
                /\ ex[y].calls = 0
                /\ rpc = "done" =>
                      /\ y \in DOMAIN results
                      /\ ~results[y].ok
                      /\ status[y] = "SKIPPED"

C3_Witness ==
    /\ Returned
    /\ Acyclic
    /\ \E x, w, y \in Names :
          /\ status[x] = "FAILED"
          /\ x \in deps[w]
          /\ w \in deps[y]
          /\ x \notin deps[y]
          /\ status[y] = "SKIPPED"

\* ---- C4
\* C4: a task in flight is never given a skip result or status SKIPPED, and
\* when run returns every task whose direct and transitive prerequisites
\* all have ok results was executed and holds the result its own execute
\* returned, whatever failed elsewhere.
C4_NonFailFast ==
    ValidRefs =>
        /\ \A t \in running :
              /\ t \notin DOMAIN results
              /\ status[t] # "SKIPPED"
              /\ ex[t].pc \in {"created", "body", "sleep", "returned"}
        /\ rpc = "done" =>
              \A t \in Names :
                  (\A a \in Ancestors(t) : results[a].ok) =>
                      /\ ex[t].pc = "returned"
                      /\ ex[t].calls >= 1
                      /\ results[t] = ex[t].result
                      /\ status[t] \in {"SUCCEEDED", "FAILED"}

C4_Witness ==
    /\ Diamond
    /\ Returned
    /\ status["A"] = "SUCCEEDED"
    /\ status["B"] = "FAILED"
    /\ results["B"].retries = RunRetries
    /\ status["C"] = "SUCCEEDED"
    /\ ex["C"].calls >= 1
    /\ status["D"] = "SKIPPED"
    /\ Cardinality(DOMAIN ret.value) = 4

\* ---- C5
\* C5: when execute returns ok=true after the body failed on its first k
\* calls, k < max_retries, the result has retries = k, the status is
\* SUCCEEDED, the wait after the i-th failure was retry_backoff_seconds * i
\* and the waits add up to retry_backoff_seconds * (1 + 2 + ... + k).
C5_RetryThenSuccess ==
    \A t \in DOMAIN ex :
        LET c == ex[t]
            k == c.calls - 1
        IN  (c.pc = "returned" /\ c.result.ok /\ k < max_retries[t]) =>
                /\ c.result.retries = k
                /\ status[t] = "SUCCEEDED"
                /\ Len(c.waits) = k
                /\ \A i \in 1..k : c.waits[i] = retry_backoff_seconds[t] * i
                /\ SeqSum(c.waits) = retry_backoff_seconds[t] * SumTo(k)
                /\ rpc = "done" => ret = [kind |-> "result", value |-> c.result]

C5_Witness ==
    /\ rpc = "done"
    /\ ret.kind = "result"
    /\ ret.value.ok
    /\ ret.value.retries = 3
    /\ max_retries["A"] = 4
    /\ retry_backoff_seconds["A"] = 2
    /\ ex["A"].waits = <<2, 4, 6>>

\* ---- C6
\* C6 as stated: when every attempt failed, execute returns ok=false with
\* status FAILED, retries = max_retries and the error of the last attempt,
\* for every max_retries >= 0.
C6_Original ==
    \A t \in DOMAIN ex :
        (ex[t].pc = "returned" /\ ~ex[t].result.ok) =>
            /\ status[t] = "FAILED"
            /\ ex[t].result.retries = max_retries[t]
            /\ ex[t].result.error = Traceback(ex[t].calls)

\* C6 amended: when every attempt failed, execute returns ok=false with
\* status FAILED and the error of the last attempt; retries = max_retries
\* when max_retries >= 1, and retries = 1 (the single attempt) when
\* max_retries = 0.
C6_ExhaustedRetries ==
    \A t \in DOMAIN ex :
        (ex[t].pc = "returned" /\ ~ex[t].result.ok) =>
            /\ status[t] = "FAILED"
            /\ ex[t].result.retries = (IF max_retries[t] >= 1 THEN max_retries[t] ELSE 1)
            /\ ex[t].calls = ex[t].result.retries
            /\ ex[t].result.error = Traceback(ex[t].calls)
            /\ ex[t].result.finished

C6_Witness ==
    /\ rpc = "done"
    /\ ret.kind = "result"
    /\ ~ret.value.ok
    /\ max_retries["A"] = 3
    /\ ret.value.retries = 3
    /\ ret.value.error = Traceback(3)

\* ---- C7
\* C7: no execute coroutine ever ends with an exception; each calls the
\* body at most max(1, max_retries) times and returns a finished result
\* with the task SUCCEEDED (ok=true) or FAILED (ok=false); and run on a
\* graph with valid references never raises.
C7_ExecuteNeverRaises ==
    /\ \A t \in DOMAIN ex :
          /\ ex[t].pc # "raised"
          /\ ex[t].calls <= (IF max_retries[t] >= 1 THEN max_retries[t] ELSE 1)
          /\ ex[t].pc = "returned" =>
                /\ ex[t].result.finished
                /\ \/ ex[t].result.ok /\ status[t] = "SUCCEEDED"
                   \/ ~ex[t].result.ok /\ status[t] = "FAILED"
    /\ raised.kind # "task_exception"
    /\ ValidRefs => rpc # "error"

C7_Witness ==
    /\ Returned
    /\ \E a, b \in Names :
          /\ status[a] = "FAILED"
          /\ ex[a].calls = RunRetries
          /\ status[b] = "SUCCEEDED"
          /\ results[b].retries >= 1

\* ---- C8
\* C8: on a graph with a prerequisite that is no declared task, run and
\* toposort raise the error listing every (task, missing prerequisite)
\* pair, nothing is returned, no task is launched, no status changes, no
\* result is stored and nothing is persisted.
C8_UnknownDependencyFailsFirst ==
    ~ValidRefs =>
        /\ rpc \in {"idle", "error"}
        /\ rpc = "error" => raised # NoValue
        /\ raised # NoValue =>
              /\ raised.kind = "unknown_dependency"
              /\ raised.missing =
                    {e \in Names \X {Undeclared} : Undeclared \in deps[e[1]]}
        /\ ret = NoValue
        /\ running = {} /\ ready = {} /\ done = {}
        /\ results = EmptyMap
        /\ saved = NoValue
        /\ \A t \in Names : status[t] = "PENDING" /\ ex[t] = NoCoroutine

C8_Witness ==
    /\ rpc = "error"
    /\ deps["D"] = {Undeclared}
    /\ raised.kind = "unknown_dependency"
    /\ <<"D", Undeclared>> \in raised.missing
    /\ Cardinality(raised.missing) = 2

\* ---- C9
\* The tasks on a cycle or with a task on a cycle among their prerequisites.
OnOrBehindCycle == {t \in Names : \E a \in Ancestors(t) \cup {t} : a \in Ancestors(a)}

\* C9: on a graph with valid references, toposort and validate_acyclic
\* raise exactly when the graph has a cycle, and the error names exactly
\* the tasks whose in-degree never reached zero (those on or behind a cycle).
C9_CycleDetected ==
    (rpc = "idle" /\ ValidRefs) =>
        /\ ret # NoValue => ~HasCycle
        /\ raised # NoValue =>
              /\ HasCycle
              /\ raised.kind = "cycle"
              /\ {raised.stuck[i] : i \in 1..Len(raised.stuck)} = OnOrBehindCycle
              /\ Len(raised.stuck) = Cardinality(OnOrBehindCycle)

C9_Witness ==
    /\ deps = [t \in Names |-> IF t = "A" THEN {"B"} ELSE IF t = "B" THEN {"A"} ELSE {}]
    /\ raised.kind = "cycle"
    /\ raised.stuck = <<"A", "B">>

\* ---- C10
\* The position of task t in the order o.
Position(o, t) == CHOOSE i \in 1..Len(o) : o[i] = t

C10_OrderValid ==
    (rpc = "idle" /\ Acyclic) =>
        /\ raised = NoValue
        /\ (ret # NoValue /\ ret.kind = "order") =>
            /\ Len(ret.order) = Cardinality(Names)
            /\ {ret.order[i] : i \in 1..Len(ret.order)} = Names
            /\ \A t \in Names : \A p \in deps[t] :
                  Position(ret.order, p) < Position(ret.order, t)

\* C10: on an acyclic graph with valid references toposort returns every
\* declared task exactly once, each after all of its prerequisites, and the
\* call leaves tasks and deps as they were.
C10_TopologicalOrder ==
    /\ []C10_OrderValid
    /\ [][ret' # ret => (tasks' = tasks /\ deps' = deps)]_vars

C10_Witness ==
    /\ Diamond
    /\ ret.kind = "order"
    /\ ret.order = <<"A", "C", "B", "D">>

\* ---- C11
\* The most body invocations execute() makes with max_retries = mr.
MostCalls(mr) == IF mr = 0 THEN 1 ELSE mr

\* The steps the coroutine c of a task with max_retries = mr can still take.
StepsLeft(c, mr) ==
    CASE c.pc = "none"    -> 2 * MostCalls(mr) + 1
      [] c.pc = "created" -> 2 * MostCalls(mr)
      [] c.pc = "body"    -> 2 * (MostCalls(mr) - c.calls) + 1
      [] c.pc = "sleep"   -> 2 * (MostCalls(mr) - c.calls)
      [] OTHER            -> 0

\* The steps run() itself can take before its next wake-up is processed.
LoopStepsLeft == CASE rpc = "loop" -> 2 [] rpc = "wait" -> 1 [] OTHER -> 0

\* A natural number that bounds the steps a run can still take: the
\* unresolved tasks weigh more than anything one resolution can add.
Measure ==
    IF rpc \in {"done", "error"} THEN 0
    ELSE (Cardinality(Names) + 2) * Cardinality(Names \ DOMAIN results)
         + SeqSum([i \in 1..Len(tasks) |-> StepsLeft(ex[tasks[i]], max_retries[tasks[i]])])
         + Cardinality(ready)
         + LoopStepsLeft

\* A run that has not returned can take a step: it never blocks for good.
C11_NeverStuck == (rpc \in {"loop", "wait", "process"}) => ENABLED Next

\* The step on which the main loop is left: every task gets one entry, the
\* stored results are kept, and each task still without one is skipped with
\* the generic reason, never having been executed.
C11_LoopExit ==
    (rpc = "loop" /\ rpc' = "done") =>
        /\ ret'.kind = "results"
        /\ DOMAIN ret'.value = Names
        /\ \A t \in Names :
              IF t \in DOMAIN results
              THEN ret'.value[t] = results[t]
              ELSE /\ t \in OnOrBehindCycle
                   /\ ret'.value[t] = SkipResult(Unrunnable)
                   /\ status'[t] = "SKIPPED"
                   /\ ex'[t] = NoCoroutine

C12_SkipIdempotent ==
    \A t \in DOMAIN results : \A reason \in {PrereqFailed, Unrunnable} :
        mark_skipped(RunState, t, reason) = {RunState}

\* B and C wait for each other: the sweep skips B, then C, and C's loop over
\* its children calls mark_skipped on B again, which already has its result.
C12_Witness ==
    /\ Returned
    /\ deps = [t \in Names |-> IF t = "B" THEN {"C"} ELSE IF t = "C" THEN {"B"} ELSE {}]
    /\ results["A"].ok
    /\ ~results["D"].ok
    /\ status["D"] = "FAILED"
    /\ results["B"] = SkipResult(Unrunnable)
    /\ has_failed_parent["B"]
    /\ remaining_deps["B"] = {}

\* ---- C13
\* A stored result is terminal and comes from the task's one coroutine or,
\* for a task that never had one, from the skip path.
C13_OneTerminalResult ==
    \A t \in DOMAIN results :
        /\ results[t].finished
        /\ status[t] \in Terminal
        /\ \/ ex[t].pc = "returned" /\ results[t] = ex[t].result
           \/ ex[t].pc = "none" /\ results[t] \in {SkipResult(PrereqFailed), SkipResult(Unrunnable)}

\* One step of a run: a task is put in flight only if it never had a
\* coroutine and has no result, a coroutine once created is never created
\* anew, and a stored result stays as it was stored.
C13_NoRerunStep ==
    /\ \A t \in running' \ running :
          /\ ex[t].pc = "none"
          /\ t \notin DOMAIN results
          /\ ex'[t] = NewCoroutine
    /\ \A t \in Names :
          ex[t].pc # "none" => (ex'[t].pc \notin {"none", "created"} \/ ex'[t] = ex[t])
    /\ \A t \in Names :
          ex'[t].calls > ex[t].calls => (ex[t].pc \in {"created", "sleep"} /\ t \in running)
    /\ \A t \in DOMAIN results :
          t \in DOMAIN results' /\ results'[t] = results[t]

\* C13: within one run the scheduler starts execute at most once per task
\* (never for a task that has a result or is in flight), every body
\* invocation, retries included, happens inside that one coroutine, and the
\* one terminal result stored for a task is never replaced.
C13_NoRerun ==
    /\ []C13_OneTerminalResult
    /\ [][C13_NoRerunStep]_vars

C13_Witness ==
    /\ Returned
    /\ Diamond
    /\ \A t \in Names : results[t].ok
    /\ ex["A"].calls = 2
    /\ results["A"].retries = 1
    /\ ex["D"].calls = 2
    /\ results["D"].retries = 1

\* ---- C14
\* What the run reports for task t.
Outcome(t) == [ok |-> results[t].ok, status |-> status[t], retries |-> results[t].retries]

RECURSIVE BoundToSucceed(_)
\* On an acyclic graph: every task above t and t itself has a body that
\* ended in a success.
BoundToSucceed(t) ==
    /\ \A p \in deps[t] : BoundToSucceed(p)
    /\ ex[t].pc = "returned"
    /\ ex[t].result.ok

\* The outcome of t fixed by the graph and by what the bodies did, attempt
\* by attempt, with no reference to the order of completions.
Expected(t) ==
    IF \E p \in deps[t] : ~BoundToSucceed(p)
    THEN [ok |-> FALSE, status |-> "SKIPPED", retries |-> 0]
    ELSE IF ex[t].result.ok
         THEN [ok |-> TRUE, status |-> "SUCCEEDED", retries |-> ex[t].calls - 1]
         ELSE [ok |-> FALSE, status |-> "FAILED", retries |-> ex[t].calls]

\* C14: on an acyclic graph the returned map of (ok, status, retries) is a
\* function of the graph and of the behaviour of the bodies alone: a task
\* is executed exactly when every task above it succeeded and then reports
\* what its attempts did, and is skipped otherwise, whatever the order in
\* which completions were woken up on and processed.
C14_OrderIndependent ==
    (Returned /\ Acyclic) =>
        \A t \in Names :
            /\ Outcome(t) = Expected(t)
            /\ ex[t].pc = IF \A p \in deps[t] : BoundToSucceed(p) THEN "returned" ELSE "none"

C14_Witness ==
    /\ Returned
    /\ deps = [t \in Names |-> IF t = "D" THEN {"A", "B", "C"} ELSE {}]
    /\ Outcome("A") = [ok |-> TRUE, status |-> "SUCCEEDED", retries |-> 0]
    /\ Outcome("B") = [ok |-> FALSE, status |-> "FAILED", retries |-> RunRetries]
    /\ Outcome("C") = [ok |-> TRUE, status |-> "SUCCEEDED", retries |-> 1]
    /\ Outcome("D") = [ok |-> FALSE, status |-> "SKIPPED", retries |-> 0]

\* ---- C15
\* C15: with max_retries = 0 execute calls the body once and never sleeps;
\* if that call raises, it returns at once with the task FAILED, the error
\* of that one attempt recorded and no backoff waited.
C15_SingleAttempt ==
    \A t \in DOMAIN ex :
        max_retries[t] = 0 =>
            /\ ex[t].calls <= 1
            /\ ex[t].pc # "sleep"
            /\ ex[t].waits = <<>>
            /\ ex[t].pc = "returned" =>
                  /\ ex[t].calls = 1
                  /\ ex[t].result.finished
                  /\ ~ex[t].result.ok =>
                        /\ status[t] = "FAILED"
                        /\ ex[t].result.error = Traceback(1)

C15_Witness ==
    /\ rpc = "done"
    /\ ret.kind = "result"
    /\ max_retries["A"] = 0
    /\ retry_backoff_seconds["A"] = MaxBackoff
    /\ ~ret.value.ok
    /\ status["A"] = "FAILED"
    /\ ex["A"].calls = 1
    /\ ex["A"].waits = <<>>

\* ---- C16
\* C16 as stated: in every returned result retries counts the failed
\* attempts before the final one; the final attempt is not counted, whether
\* it succeeded or exhausted the retries.
C16_Original ==
    \A t \in DOMAIN ex :
        ex[t].pc = "returned" => ex[t].result.retries = ex[t].calls - 1

\* C16 amended: in every returned result retries counts the attempts that
\* raised: the attempt that succeeds is not counted, the attempt that
\* exhausts the retries is.
C16_RetriesCountFailures ==
    \A t \in DOMAIN ex :
        ex[t].pc = "returned" =>
            /\ ex[t].result.retries = ex[t].attempt
            /\ ex[t].result.retries =
                  (IF ex[t].result.ok THEN ex[t].calls - 1 ELSE ex[t].calls)

C16_Witness ==
    /\ rpc = "done"
    /\ ret.kind = "result"
    /\ ~ret.value.ok
    /\ max_retries["A"] = 2
    /\ retry_backoff_seconds["A"] = 1
    /\ ex["A"].calls = 2
    /\ ex["A"].waits = <<1>>
    /\ ret.value.retries = 2

\* ---- C17
\* The status changes execute and the skip logic make on a fresh task.
StatusMoves ==
    {<<"PENDING", "RUNNING">>, <<"RUNNING", "SUCCEEDED">>, <<"RUNNING", "FAILED">>,
     <<"PENDING", "SKIPPED">>}

\* Each status agrees with what was done to the task so far.
C17_StatusOwner ==
    \A t \in Names :
        /\ status[t] = "SKIPPED" => (ex[t] = NoCoroutine /\ t \in DOMAIN results)
        /\ status[t] = "PENDING" => ex[t].pc \in {"none", "created"}
        /\ status[t] = "RUNNING" => ex[t].pc \in {"body", "sleep"}
        /\ status[t] \in {"SUCCEEDED", "FAILED"} => ex[t].pc = "returned"

\* One step: a status changes only along StatusMoves, to RUNNING, SUCCEEDED
\* or FAILED only by the task's own coroutine, to SKIPPED only by run().
C17_StatusStep ==
    \A t \in Names :
        status'[t] # status[t] =>
            /\ <<status[t], status'[t]>> \in StatusMoves
            /\ status'[t] = "SKIPPED" => (ex'[t] = ex[t] /\ rpc \in {"loop", "process"})
            /\ status'[t] # "SKIPPED" => (ex'[t] # ex[t] /\ rpc = "wait")

\* C17: in a run over fresh tasks a status only moves PENDING -> RUNNING ->
\* SUCCEEDED or FAILED, written by execute, or PENDING -> SKIPPED, written
\* by the skip logic; a RUNNING, SUCCEEDED or FAILED task is never set to
\* SKIPPED, a SKIPPED task is never executed, and a terminal status stays.
C17_StatusTransitions ==
    /\ []C17_StatusOwner
    /\ [][C17_StatusStep]_vars

C17_Witness ==
    /\ Returned
    /\ deps = [t \in Names |-> IF t = "C" THEN {"A", "B"} ELSE IF t = "D" THEN {"C"} ELSE {}]
    /\ status = [t \in Names |-> IF t = "A" THEN "SUCCEEDED" ELSE IF t = "B" THEN "FAILED"
                                  ELSE "SKIPPED"]
    /\ results["A"].retries = 1

\* ---- C18
\* The tasks whose prerequisites all have a stored result with ok = true.
UnblockedTasks ==
    {t \in Names : deps[t] \subseteq DOMAIN results /\ \A p \in deps[t] : results[p].ok}

\* C18: whenever run() is suspended waiting for a completion, no task is
\* left in the ready set and every task whose prerequisites all have ok
\* results is in flight or has a result; at the first wait these are the
\* tasks without prerequisites, all in flight together.
C18_AllUnblockedLaunched ==
    rpc = "wait" =>
        /\ ready = {}
        /\ running # {}
        /\ UnblockedTasks \subseteq (running \cup DOMAIN results)
        /\ results = EmptyMap => running = {t \in Names : deps[t] = {}}

C18_Witness ==
    /\ rpc = "wait"
    /\ Diamond
    /\ DOMAIN results = {"A"}
    /\ running = {"B", "C"}
    /\ ex["B"].pc = "sleep"
    /\ ex["C"].pc = "body"

\* ---- C19
\* On an acyclic graph: when the loop is about to be left every task has
\* its result, no result carries the generic reason, and a skipped task has
\* the 'prerequisite failed' result, all its prerequisites resolved and one
\* of them not ok.
C19_ResolvedInLoop ==
    Acyclic =>
        /\ (rpc = "loop" /\ ready = {} /\ running = {}) => DOMAIN results = Names
        /\ \A t \in DOMAIN results : results[t].error # Reason(Unrunnable)
        /\ \A t \in Names :
              status[t] = "SKIPPED" =>
                  /\ t \in DOMAIN results
                  /\ results[t] = SkipResult(PrereqFailed)
                  /\ deps[t] \subseteq DOMAIN results
                  /\ \E p \in deps[t] : ~results[p].ok

\* The loop-exit step on an acyclic graph: the sweep changes nothing.
C19_SweepIdle ==
    (Acyclic /\ rpc = "loop" /\ rpc' = "done") =>
        /\ results' = results
        /\ status' = status
        /\ ret'.value = results

\* C19: on an acyclic graph with valid references the main loop resolves
\* every task, so the post-loop sweep skips nothing and no task carries the
\* 'unrunnable' reason; every skipped task carries the 'prerequisite
\* failed' reason and was skipped only once all of its prerequisites had
\* stored results.
C19_MainLoopResolvesAll ==
    /\ []C19_ResolvedInLoop
    /\ [][C19_SweepIdle]_vars

C19_Witness ==
    /\ rpc = "loop"
    /\ ready = {}
    /\ running = {}
    /\ deps = [t \in Names |-> IF t = "B" THEN {"A"} ELSE IF t = "C" THEN {"B"}
                                ELSE IF t = "D" THEN {"A", "C"} ELSE {}]
    /\ status = [t \in Names |-> IF t = "A" THEN "FAILED" ELSE "SKIPPED"]
    /\ DOMAIN results = Names

\* ---- C20
\* C20: after every run that returned, the first or a later one on the
\* same Task objects, each task has an entry in that run's result map and
\* its status agrees with it: SUCCEEDED exactly when ok, FAILED or SKIPPED
\* exactly when not ok, error present exactly when not ok, finished_at set;
\* and the status is the one this run wrote: SUCCEEDED or FAILED for a task
\* it executed, SKIPPED for a task it did not.
C20_StatusAgreesWithResult ==
    Returned =>
        \A t \in Names :
            /\ t \in DOMAIN results
            /\ ret.value[t] = results[t]
            /\ status[t] = "SUCCEEDED" <=> results[t].ok
            /\ status[t] \in {"FAILED", "SKIPPED"} <=> ~results[t].ok
            /\ results[t].error # NoError <=> ~results[t].ok
            /\ results[t].finished
            /\ status[t] \in {"SUCCEEDED", "FAILED"} <=> ex[t].pc = "returned"
            /\ status[t] = "SKIPPED" <=> ex[t].pc = "none"

\* A second run that returned: A succeeded after one failed attempt, B
\* exhausted its retries, C was skipped behind B.
C20_Witness ==
    /\ Returned
    /\ runs = MaxRuns
    /\ deps = [t \in Names |-> IF t = "C" THEN {"B"} ELSE {}]
    /\ status["A"] = "SUCCEEDED"
    /\ results["A"].retries = 1
    /\ status["B"] = "FAILED"
    /\ status["C"] = "SKIPPED"
    /\ results["C"] = SkipResult(PrereqFailed)

====
